---- MODULE Spec2Model ----
(***************************************************************************)
(* Three ways of holding a collection of User records in Go:               *)
(*   A  []User    value slice        (HogeA)                               *)
(*   B  *[]User   pointer to a slice (FugaB)                               *)
(*   C  []*User   slice of pointers  (PiyoC)                               *)
(* The module models the memory the demos act on (a heap of User records   *)
(* reached through pointers, backing arrays of User values reached through *)
(* slice headers), the utility functions of the side-effects / nil demo    *)
(* and the JSON encoding of the three container structs.                   *)
(***************************************************************************)
EXTENDS Integers, Sequences, FiniteSets

VARIABLES
    heap,      \* heap of User records; a *User is an index into it, Nil is 0
    ptrs,      \* the source []*User
    res,       \* the []*User an operation returned
    op,        \* the operation that was applied to ptrs ("none" before it)
    pred,      \* the predicate handed to the filter
    heap0,     \* the heap as it was when the operation was called
    ptrs0,     \* ptrs as it was when the operation was called
    fault,     \* TRUE when a nil pointer was dereferenced
    touched,   \* the holders ("ptrs", "res") through which a field was assigned
    nmut,      \* number of field assignments made
    out,       \* the last JSON document produced, and what it was made from
    arrays,    \* backing arrays of User values; a slice header points into one
    slots,     \* the []User variables: a (a.Users), a2 (a2.Users), empty, val
    bUsers,    \* b.Users, a *[]User: the variable it points to, or NilRef
    bOf,       \* the variable whose address was assigned to b.Users
    snap,      \* the elements of a.Users when a2 was copied from it
    copied,    \* TRUE once a2.Users was made from a.Users
    vmut,      \* number of assignments and appends made to value slices
    stdout     \* what printJSON has printed

ptrVars == <<heap, ptrs, res, op, pred, heap0, ptrs0, fault, touched, nmut, out>>

valVars == <<arrays, slots, bUsers, bOf, snap, copied, vmut>>

vars == <<ptrVars, valVars, stdout>>

----------------------------------------------------------------------------
(* Bounds of the model *)

\* longest source sequence
MaxLen == 3
\* number of User records allocated before the operation
MaxRec == 3
\* number of field assignments after the operation
MaxMut == 2

----------------------------------------------------------------------------
(* Data *)

Nil == 0

\* Names are strings; a string is the sequence of its bytes, so that Go's <
\* on strings (bytewise lexicographic) is computed, not assumed.
\* "Alice"
NameAlice == <<65, 108, 105, 99, 101>>
\* "Bob"
NameBob == <<66, 111, 98>>
\* "Carol"
NameCarol == <<67, 97, 114, 111, 108>>
\* "Alice-Updated"
NameUpdated == <<65, 108, 105, 99, 101, 45, 85, 112, 100, 97, 116, 101, 100>>

\* The records are generated from their position, as genUsers and
\* genPtrUsers do: record i has ID i and a name, an age, an email and a city
\* derived from i.  The names and cities are those of the demos' literals.
GenName(i) == <<NameAlice, NameBob, NameAlice, NameCarol>>[((i - 1) % 4) + 1]
GenCity(i) == IF i % 2 = 1 THEN "Sendai" ELSE "Kanazawa"
GenEmail(i) == <<i>>

GenAge(i) == 18 + ((i - 1) % 50)

MkUser(i) ==
    [ID |-> i, Name |-> GenName(i), Age |-> GenAge(i), Email |-> GenEmail(i),
     City |-> GenCity(i)]

\* n values
genUsers(n) == [i \in 1..n |-> MkUser(i)]

\* n records on the heap; the pointer to record i is i
genPtrUsers(n) == [i \in 1..n |-> MkUser(i)]

\* s < t on Go strings
RECURSIVE LexLess(_, _)
LexLess(s, t) ==
    IF t = <<>> THEN FALSE
    ELSE IF s = <<>> THEN TRUE
    ELSE IF Head(s) < Head(t) THEN TRUE
    ELSE IF Head(s) > Head(t) THEN FALSE
    ELSE LexLess(Tail(s), Tail(t))

\* a []*User value: the nil slice, or a (possibly empty) sequence of pointers
NilPtrSlice == [nil |-> TRUE, elems |-> <<>>]
MkPtrSlice(s) == [nil |-> FALSE, elems |-> s]

\* *p
Deref(h, p) == h[p]

----------------------------------------------------------------------------
(* Predicates handed to the filters *)

PredSet == {"SendaiNonNil", "Any", "NotSendai"}

PredHolds(pd, h, p) ==
    CASE pd = "SendaiNonNil" -> p # Nil /\ Deref(h, p).City = "Sendai"
      [] pd = "NotSendai"    -> p = Nil \/ Deref(h, p).City # "Sendai"
      [] OTHER               -> TRUE

----------------------------------------------------------------------------
(* Utility functions.  Each returns the heap after the call and the slice  *)
(* it returns.                                                             *)

RECURSIVE DeepCopyLoop(_, _, _, _)
DeepCopyLoop(h, ps, i, acc) ==
    IF i > Len(ps) THEN [heap |-> h, out |-> MkPtrSlice(acc)]
    ELSE IF ps[i] = Nil
         THEN DeepCopyLoop(h, ps, i + 1, Append(acc, Nil))
         ELSE DeepCopyLoop(Append(h, Deref(h, ps[i])), ps, i + 1,
                           Append(acc, Len(h) + 1))

RECURSIVE ShallowLoop(_, _, _, _)
ShallowLoop(h, ps, i, acc) ==
    IF i > Len(ps) THEN acc
    ELSE ShallowLoop(h, ps, i + 1, Append(acc, ps[i]))

\* faulty variant: the copy shares the records
DeepCopyPtrSliceShallow(h, s) ==
    [heap |-> h, out |-> MkPtrSlice(ShallowLoop(h, s.elems, 1, <<>>))]

DeepCopyPtrSlice(h, s) == DeepCopyLoop(h, s.elems, 1, <<>>)

RECURSIVE FilterPtrLoop(_, _, _, _, _)
FilterPtrLoop(h, ps, pd, i, acc) ==
    IF i > Len(ps) THEN [heap |-> h, out |-> MkPtrSlice(acc)]
    ELSE IF PredHolds(pd, h, ps[i])
         THEN FilterPtrLoop(h, ps, pd, i + 1, Append(acc, ps[i]))
         ELSE FilterPtrLoop(h, ps, pd, i + 1, acc)

RECURSIVE FilterPtrDeepCopyLoop(_, _, _, _, _)
FilterPtrDeepCopyLoop(h, ps, pd, i, acc) ==
    IF i > Len(ps) THEN [heap |-> h, out |-> MkPtrSlice(acc)]
    ELSE IF ps[i] = Nil \/ ~PredHolds(pd, h, ps[i])
         THEN FilterPtrDeepCopyLoop(h, ps, pd, i + 1, acc)
         ELSE FilterPtrDeepCopyLoop(Append(h, Deref(h, ps[i])), ps, pd, i + 1,
                                    Append(acc, Len(h) + 1))

\* faulty variant: the filter copies every record it keeps
FilterPtrCopying(h, s, pd) == FilterPtrDeepCopyLoop(h, s.elems, pd, 1, <<>>)

FilterPtr(h, s, pd) == FilterPtrLoop(h, s.elems, pd, 1, <<>>)

\* faulty variant: the nil test is kept but the kept pointer is appended as it is
FilterPtrDeepCopyAliasing(h, s, pd) ==
    FilterPtrLoop(h, SelectSeq(s.elems, LAMBDA p : p # Nil), pd, 1, <<>>)

FilterPtrDeepCopy(h, s, pd) == FilterPtrDeepCopyLoop(h, s.elems, pd, 1, <<>>)

RECURSIVE CompactLoop(_, _, _)
CompactLoop(ps, i, acc) ==
    IF i > Len(ps) THEN acc
    ELSE IF ps[i] # Nil
         THEN CompactLoop(ps, i + 1, Append(acc, ps[i]))
         ELSE CompactLoop(ps, i + 1, acc)

\* faulty variant: nothing is dropped
CompactNonNilKeepAll(h, s) ==
    [heap |-> h, out |-> MkPtrSlice(ShallowLoop(h, s.elems, 1, <<>>))]

CompactNonNil(h, s) == [heap |-> h, out |-> MkPtrSlice(CompactLoop(s.elems, 1, <<>>))]

\* faulty variant: the "copy" allocates new records
ShallowCopyDeep(h, s) == DeepCopyLoop(h, s.elems, 1, <<>>)

\* append([]*User(nil), ptrs...): appending nothing to the nil slice leaves nil
ShallowCopy(h, s) ==
    [heap |-> h,
     out |-> IF Len(s.elems) = 0 THEN NilPtrSlice
             ELSE MkPtrSlice(ShallowLoop(h, s.elems, 1, <<>>))]

----------------------------------------------------------------------------
(* sort.Slice(ptrs, less) with the nil-aware comparator.  For fewer than   *)
(* 12 elements the library sorts by insertion, calling less(j, j-1) and    *)
(* swapping while it answers true.                                         *)

\* p.Name; reading it through a nil pointer is the fault
NameOf(h, p) ==
    IF p = Nil THEN [fault |-> TRUE, val |-> <<>>]
    ELSE [fault |-> FALSE, val |-> Deref(h, p).Name]

FieldLess(h, ui, uj) ==
    LET a == NameOf(h, ui)
        b == NameOf(h, uj)
    IN  IF a.fault \/ b.fault THEN [fault |-> TRUE, lt |-> FALSE]
        ELSE [fault |-> FALSE, lt |-> LexLess(a.val, b.val)]

\* faulty variant: the comparator that does not expect nil
LessUnsafe(h, ps, i, j) == FieldLess(h, ps[i], ps[j])

Less(h, ps, i, j) ==
    LET ui == ps[i]
        uj == ps[j]
    IN  CASE ui = Nil /\ uj = Nil -> [fault |-> FALSE, lt |-> FALSE]
          [] ui = Nil             -> [fault |-> FALSE, lt |-> FALSE]
          [] uj = Nil             -> [fault |-> FALSE, lt |-> TRUE]
          [] OTHER                -> FieldLess(h, ui, uj)

Swap(ps, i, j) == [ps EXCEPT ![i] = ps[j], ![j] = ps[i]]

RECURSIVE SortInner(_, _, _)
SortInner(h, ps, j) ==
    IF j <= 1 THEN [fault |-> FALSE, elems |-> ps]
    ELSE LET r == Less(h, ps, j, j - 1)
         IN  IF r.fault THEN [fault |-> TRUE, elems |-> ps]
             ELSE IF r.lt THEN SortInner(h, Swap(ps, j, j - 1), j - 1)
             ELSE [fault |-> FALSE, elems |-> ps]

RECURSIVE SortOuter(_, _, _)
SortOuter(h, ps, i) ==
    IF i > Len(ps) THEN [fault |-> FALSE, elems |-> ps]
    ELSE LET r == SortInner(h, ps, i)
         IN  IF r.fault THEN r ELSE SortOuter(h, r.elems, i + 1)

SortSlice(h, ps) == SortOuter(h, ps, 2)

----------------------------------------------------------------------------
(* json.Marshal(map[string]any{"users": s}) for a []*User                  *)

JNull == [kind |-> "null"]
JObject(u) == [kind |-> "object", val |-> u]
JArray(es) == [kind |-> "array", elems |-> es]

EncodePtr(h, p) == IF p = Nil THEN JNull ELSE JObject(Deref(h, p))

EncodePtrSlice(h, s) ==
    IF s.nil THEN JNull
    ELSE JArray([i \in 1..Len(s.elems) |-> EncodePtr(h, s.elems[i])])

\* a JSON object is the sequence of its members
Member(k, v) == [key |-> k, val |-> v]

HasKey(doc, k) == \E m \in DOMAIN doc : doc[m].key = k

ValueOf(doc, k) == doc[CHOOSE m \in DOMAIN doc : doc[m].key = k].val

MarshalUsersMap(h, s) == <<Member("users", EncodePtrSlice(h, s))>>

NoDoc == [src |-> "none", doc |-> <<>>]

----------------------------------------------------------------------------
(* Value slices.  A []User is a header (array, len, cap) over a backing    *)
(* array of User values; a *[]User points to the variable that holds the   *)
(* header.                                                                 *)

NilRef == "nil"

ZeroUser == [ID |-> 0, Name |-> <<>>, Age |-> 0, Email |-> <<>>, City |-> ""]

\* var s []User
NilSlice == [nil |-> TRUE, arr |-> Nil, len |-> 0, cap |-> 0]

\* []User{}
EmptySlice == [nil |-> FALSE, arr |-> Nil, len |-> 0, cap |-> 0]

\* the elements seen through header h
Elems(arrs, h) == IF h.len = 0 THEN <<>> ELSE SubSeq(arrs[h.arr], 1, h.len)

\* []User{u1, ..., un}
SliceLiteral(arrs, us) ==
    IF Len(us) = 0 THEN [arrays |-> arrs, out |-> EmptySlice]
    ELSE [arrays |-> Append(arrs, us),
          out |-> [nil |-> FALSE, arr |-> Len(arrs) + 1, len |-> Len(us), cap |-> Len(us)]]

\* faulty variant: the "copy" is the same header over the same backing array
CopyValueSliceAliasing(arrs, h) == [arrays |-> arrs, out |-> h]

\* append([]User(nil), h...): a new backing array holding the elements
CopyValueSlice(arrs, h) ==
    IF h.len = 0 THEN [arrays |-> arrs, out |-> NilSlice]
    ELSE [arrays |-> Append(arrs, Elems(arrs, h)),
          out |-> [nil |-> FALSE, arr |-> Len(arrs) + 1, len |-> h.len, cap |-> h.len]]

\* append(h, u): in place while the capacity lasts, else into a new array
AppendValue(arrs, h, u) ==
    IF h.len < h.cap
    THEN [arrays |-> [arrs EXCEPT ![h.arr][h.len + 1] = u],
          out |-> [h EXCEPT !.len = h.len + 1]]
    ELSE LET newcap == IF h.cap = 0 THEN 1 ELSE 2 * h.cap
             grown  == [i \in 1..newcap |->
                          IF i <= h.len THEN arrs[h.arr][i]
                          ELSE IF i = h.len + 1 THEN u ELSE ZeroUser]
         IN  [arrays |-> Append(arrs, grown),
              out |-> [nil |-> FALSE, arr |-> Len(arrs) + 1, len |-> h.len + 1,
                       cap |-> newcap]]

\* faulty variant: the address of a copy of the variable
TakeAddressOfCopy(sl, v) ==
    [slots |-> [n \in DOMAIN sl \cup {"tmp"} |-> IF n = "tmp" THEN sl[v] ELSE sl[n]],
     ptr |-> "tmp"]

\* &v
TakeAddress(sl, v) == [slots |-> sl, ptr |-> v]

\* h[i].f = v and h[i].Age++
AssignField(arrs, h, i, f) ==
    IF f = "Age" THEN [arrs EXCEPT ![h.arr][i].Age = @ + 1]
    ELSE [arrs EXCEPT ![h.arr][i].Name = NameUpdated]

ValFields == {"Name", "Age"}

\* the value-slice variables before main has touched them
ValIdle ==
    /\ arrays = <<>>
    /\ slots = [n \in {"a", "a2", "empty", "val"} |-> NilSlice]
    /\ bUsers = NilRef
    /\ bOf = "none"
    /\ snap = <<>>
    /\ copied = FALSE
    /\ vmut = 0

PtrIdle ==
    /\ heap = <<>>
    /\ ptrs = NilPtrSlice
    /\ res = NilPtrSlice
    /\ op = "none"
    /\ pred = "Any"
    /\ heap0 = <<>>
    /\ ptrs0 = NilPtrSlice
    /\ fault = FALSE
    /\ touched = {}
    /\ nmut = 0
    /\ out = NoDoc

----------------------------------------------------------------------------
(* The side-effects / nil demo: one operation on ptrs, then field          *)
(* assignments through either holder; encoding a slice ends the run.       *)

RECURSIVE SeqsUpTo(_, _)
SeqsUpTo(S, n) ==
    IF n = 0 THEN {<<>>}
    ELSE LET shorter == SeqsUpTo(S, n - 1)
         IN  shorter \cup {Append(s, x) : s \in {t \in shorter : Len(t) = n - 1}, x \in S}

Init ==
    /\ heap = genPtrUsers(MaxRec)
    /\ ptrs \in {NilPtrSlice} \cup {MkPtrSlice(s) : s \in SeqsUpTo(0..MaxRec, MaxLen)}
    /\ res = NilPtrSlice
    /\ op = "none"
    /\ pred = "Any"
    /\ heap0 = heap
    /\ ptrs0 = ptrs
    /\ fault = FALSE
    /\ touched = {}
    /\ nmut = 0
    /\ out = NoDoc
    /\ ValIdle
    /\ stdout = {}

\* the call res := f(ptrs): what every utility call leaves in the state
Called(name, pd, r) ==
    /\ op = "none"
    /\ out.src = "none"
    /\ op' = name
    /\ pred' = pd
    /\ heap0' = heap
    /\ ptrs0' = ptrs
    /\ heap' = r.heap
    /\ res' = r.out
    /\ UNCHANGED <<ptrs, fault, touched, nmut, out, valVars, stdout>>

DoFilterPtr ==
    \E pd \in PredSet : Called("filterPtr", pd, FilterPtr(heap, ptrs, pd))

DoFilterPtrDeepCopy ==
    \E pd \in PredSet : Called("filterPtrDeepCopy", pd, FilterPtrDeepCopy(heap, ptrs, pd))

DoDeepCopyPtrSlice == Called("deepCopyPtrSlice", pred, DeepCopyPtrSlice(heap, ptrs))

DoCompactNonNil == Called("compactNonNil", pred, CompactNonNil(heap, ptrs))

DoShallowCopy == Called("shallow", pred, ShallowCopy(heap, ptrs))

\* u1 := &User{...}; c := PiyoC{Users: []*User{u1}}; other := PiyoC{Users: []*User{u1}}
\* (c.Users is ptrs, other.Users is res)
ShareLiteral ==
    /\ op = "none"
    /\ out.src = "none"
    /\ LET u1 == Len(heap) + 1
       IN  /\ heap' = Append(heap, MkUser(u1))
           /\ ptrs' = MkPtrSlice(<<u1>>)
           /\ res' = MkPtrSlice(<<u1>>)
           /\ ptrs0' = MkPtrSlice(<<u1>>)
           /\ heap0' = Append(heap, MkUser(u1))
    /\ op' = "share"
    /\ UNCHANGED <<pred, fault, touched, nmut, out, valVars, stdout>>

\* sort.Slice(ptrs, less): sorts ptrs in place
DoSort ==
    /\ op = "none"
    /\ out.src = "none"
    /\ LET r == SortSlice(heap, ptrs.elems)
       IN  /\ ptrs' = [ptrs EXCEPT !.elems = r.elems]
           /\ fault' = r.fault
    /\ op' = "sort"
    /\ heap0' = heap
    /\ ptrs0' = ptrs
    /\ UNCHANGED <<heap, res, pred, touched, nmut, out, valVars, stdout>>

MutFields == {"Name", "City"}

NewValue(f) == IF f = "Name" THEN NameUpdated ELSE "Tokyo"

Holder(via) == IF via = "ptrs" THEN ptrs ELSE res

\* holder[i].f = v
Mutate ==
    \E via \in {"ptrs", "res"}, f \in MutFields :
      \E i \in DOMAIN Holder(via).elems :
        /\ op \notin {"none", "sort"}
        /\ out.src = "none"
        /\ nmut < MaxMut
        /\ Holder(via).elems[i] # Nil
        /\ heap' = [heap EXCEPT ![Holder(via).elems[i]][f] = NewValue(f)]
        /\ touched' = touched \cup {via}
        /\ nmut' = nmut + 1
        /\ UNCHANGED <<ptrs, res, op, pred, heap0, ptrs0, fault, out, valVars, stdout>>

\* out, _ := json.Marshal(map[string]any{"users": holder})
Marshal ==
    \E via \in {"ptrs", "res"} :
        /\ out.src = "none"
        /\ nmut = 0
        /\ ~fault
        /\ via = "res" => op \notin {"none", "sort"}
        /\ out' = [src |-> via, doc |-> MarshalUsersMap(heap, Holder(via))]
        /\ UNCHANGED <<heap, ptrs, res, op, pred, heap0, ptrs0, fault, touched, nmut, valVars, stdout>>

Next ==
    \/ DoFilterPtr
    \/ DoFilterPtrDeepCopy
    \/ DoDeepCopyPtrSlice
    \/ DoCompactNonNil
    \/ DoShallowCopy
    \/ DoSort
    \/ ShareLiteral
    \/ Mutate
    \/ Marshal

Spec == Init /\ [][Next]_vars


----------------------------------------------------------------------------
(* main: the value slice a.Users and its copy, the slice pointer b.Users   *)

\* a.Users and val hold nil, []User{} or generated users; empty is []User{}
InitVal ==
    /\ \E na, nv \in 0..MaxLen, nila, nilv \in BOOLEAN :
          LET la == IF nila THEN [arrays |-> <<>>, out |-> NilSlice]
                    ELSE SliceLiteral(<<>>, genUsers(na))
              lv == IF nilv THEN [arrays |-> la.arrays, out |-> NilSlice]
                    ELSE SliceLiteral(la.arrays, genUsers(nv))
          IN  /\ arrays = lv.arrays
              /\ slots = [n \in {"a", "a2", "empty", "val"} |->
                            CASE n = "a"     -> la.out
                              [] n = "val"   -> lv.out
                              [] n = "empty" -> EmptySlice
                              [] OTHER       -> NilSlice]
    /\ bUsers = NilRef
    /\ bOf = "none"
    /\ snap = <<>>
    /\ copied = FALSE
    /\ vmut = 0
    /\ PtrIdle
    /\ stdout = {}

\* a2 := HogeA{Users: append([]User(nil), a.Users...)}
CopyA ==
    /\ ~copied
    /\ LET r == CopyValueSlice(arrays, slots["a"])
       IN  /\ arrays' = r.arrays
           /\ slots' = [slots EXCEPT !["a2"] = r.out]
    /\ snap' = Elems(arrays, slots["a"])
    /\ copied' = TRUE
    /\ UNCHANGED <<bUsers, bOf, vmut, ptrVars, stdout>>

\* a2.Users[i].Name = "Changed in a2"; dst[i].Age++
MutateA2 ==
    \E i \in 1..slots["a2"].len, f \in ValFields :
        /\ copied
        /\ vmut < MaxMut
        /\ arrays' = AssignField(arrays, slots["a2"], i, f)
        /\ vmut' = vmut + 1
        /\ UNCHANGED <<slots, bUsers, bOf, snap, copied, ptrVars, stdout>>

\* b.Users = &empty; b.Users = &val
PointB ==
    \E v \in {"empty", "val"} :
        /\ bOf # v
        /\ LET r == TakeAddress(slots, v)
           IN  /\ slots' = r.slots
               /\ bUsers' = r.ptr
        /\ bOf' = v
        /\ UNCHANGED <<arrays, snap, copied, vmut, ptrVars, stdout>>

\* the variable reached through a holder: *b.Users, or the variable itself
Target(via) == IF via = "b" THEN bUsers ELSE bOf

\* (*b.Users)[i].Name = "Bob-Updated"; val[i].Name = ...
MutateShared ==
    \E via \in {"b", "var"}, f \in ValFields :
        /\ bOf # "none"
        /\ vmut < MaxMut
        /\ \E i \in 1..slots[Target(via)].len :
              arrays' = AssignField(arrays, slots[Target(via)], i, f)
        /\ vmut' = vmut + 1
        /\ UNCHANGED <<slots, bUsers, bOf, snap, copied, ptrVars, stdout>>

\* *b.Users = append(*b.Users, u); val = append(val, u)
AppendShared ==
    \E via \in {"b", "var"} :
        /\ bOf # "none"
        /\ vmut < MaxMut
        /\ LET h == slots[Target(via)]
               r == AppendValue(arrays, h, MkUser(h.len + 1))
           IN  /\ arrays' = r.arrays
               /\ slots' = [slots EXCEPT ![Target(via)] = r.out]
        /\ vmut' = vmut + 1
        /\ UNCHANGED <<bUsers, bOf, snap, copied, ptrVars, stdout>>

NextVal ==
    \/ CopyA
    \/ MutateA2
    \/ PointB
    \/ MutateShared
    \/ AppendShared

SpecVal == InitVal /\ [][NextVal]_vars

----------------------------------------------------------------------------
(* printJSON of the three container structs.  Each has the tag             *)
(* `json:"users,omitempty"`: encoding/json leaves the member out when the  *)
(* field is empty, which for a slice is len 0 and for a pointer is nil.    *)

EncodeValueSlice(arrs, h) ==
    IF h.nil THEN JNull
    ELSE JArray([i \in 1..h.len |-> JObject(arrs[h.arr][i])])

\* HogeA{Users []User}
MarshalHogeA(arrs, h) ==
    IF h.len = 0 THEN <<>>
    ELSE <<Member("users", EncodeValueSlice(arrs, h))>>

\* FugaB{Users *[]User}
MarshalFugaB(arrs, sl, p) ==
    IF p = NilRef THEN <<>>
    ELSE <<Member("users", EncodeValueSlice(arrs, sl[p]))>>

\* PiyoC{Users []*User}
MarshalPiyoC(h, s) ==
    IF Len(s.elems) = 0 THEN <<>>
    ELSE <<Member("users", EncodePtrSlice(h, s))>>

Shapes == {"A", "B", "C"}

\* what the collection of a container is: absent, present with no element,
\* or present with elements
KindOf(isNil, n) == IF isNil THEN "nil" ELSE IF n = 0 THEN "empty" ELSE "elems"

ContainerKind(sh) ==
    CASE sh = "A" -> KindOf(slots["a"].nil, slots["a"].len)
      [] sh = "B" -> IF bUsers = NilRef THEN "nil" ELSE KindOf(FALSE, slots[bUsers].len)
      [] OTHER    -> KindOf(ptrs.nil, Len(ptrs.elems))

printJSON(sh) ==
    CASE sh = "A" -> MarshalHogeA(arrays, slots["a"])
      [] sh = "B" -> MarshalFugaB(arrays, slots, bUsers)
      [] OTHER    -> MarshalPiyoC(heap, ptrs)

\* a := HogeA{}; var b FugaB; empty := []User{}; val := []User{{...}};
\* u1 := &User{...}; c.Users (ptrs) is still nil
InitJSON ==
    /\ LET lv == SliceLiteral(<<>>, genUsers(1))
       IN  /\ arrays = lv.arrays
           /\ slots = [n \in {"a", "a2", "empty", "val"} |->
                         CASE n = "val"   -> lv.out
                           [] n = "empty" -> EmptySlice
                           [] OTHER       -> NilSlice]
    /\ bUsers = NilRef
    /\ bOf = "none"
    /\ snap = <<>>
    /\ copied = FALSE
    /\ vmut = 0
    /\ heap = genPtrUsers(1)
    /\ ptrs = NilPtrSlice
    /\ res = NilPtrSlice
    /\ op = "none"
    /\ pred = "Any"
    /\ heap0 = heap
    /\ ptrs0 = ptrs
    /\ fault = FALSE
    /\ touched = {}
    /\ nmut = 0
    /\ out = NoDoc
    /\ stdout = {}

\* a.Users = []User{}
AssignEmptyA ==
    /\ slots["a"].nil
    /\ slots' = [slots EXCEPT !["a"] = EmptySlice]
    /\ UNCHANGED <<arrays, bUsers, bOf, snap, copied, vmut, ptrVars, stdout>>

\* a.Users = []User{{ID: 1, ...}}
AssignLiteralA ==
    /\ slots["a"] = EmptySlice
    /\ LET r == SliceLiteral(arrays, genUsers(1))
       IN  /\ arrays' = r.arrays
           /\ slots' = [slots EXCEPT !["a"] = r.out]
    /\ UNCHANGED <<bUsers, bOf, snap, copied, vmut, ptrVars, stdout>>

\* c.Users = []*User{}
AssignEmptyC ==
    /\ ptrs.nil
    /\ ptrs' = MkPtrSlice(<<>>)
    /\ UNCHANGED <<heap, res, op, pred, heap0, ptrs0, fault, touched, nmut, out,
                   valVars, stdout>>

\* c := PiyoC{Users: []*User{u1}}
AssignLiteralC ==
    /\ Len(ptrs.elems) = 0
    /\ ptrs' = MkPtrSlice(<<Len(heap)>>)
    /\ UNCHANGED <<heap, res, op, pred, heap0, ptrs0, fault, touched, nmut, out,
                   valVars, stdout>>

\* c.Users = append(c.Users, nil)
AppendNilC ==
    /\ Len(ptrs.elems) = 1
    /\ ptrs' = MkPtrSlice(Append(ptrs.elems, Nil))
    /\ UNCHANGED <<heap, res, op, pred, heap0, ptrs0, fault, touched, nmut, out,
                   valVars, stdout>>

\* printJSON(label, v): one line of output per call
PrintJSON ==
    \E sh \in Shapes :
        /\ stdout' = stdout \cup {[shape |-> sh, kind |-> ContainerKind(sh),
                                   doc |-> printJSON(sh)]}
        /\ UNCHANGED <<ptrVars, valVars>>

NextJSON ==
    \/ AssignEmptyA
    \/ AssignLiteralA
    \/ PointB
    \/ AssignEmptyC
    \/ AssignLiteralC
    \/ AppendNilC
    \/ PrintJSON

SpecJSON == InitJSON /\ [][NextJSON]_vars

----------------------------------------------------------------------------
(* Properties of the slice-of-pointers operations *)

Present(s) == SelectSeq(s, LAMBDA p : p # Nil)

Count(x, s) == Cardinality({i \in DOMAIN s : s[i] = x})

\* what a reader sees through slot p: nothing for nil, else the record
Observe(h, p) == IF p = Nil THEN <<>> ELSE <<Deref(h, p)>>

ObservedThrough(h, s) == [i \in 1..Len(s.elems) |-> Observe(h, s.elems[i])]

SourceUnchanged ==
    \A i \in DOMAIN ptrs.elems :
        ptrs.elems[i] # Nil => Deref(heap, ptrs.elems[i]) = Deref(heap0, ptrs.elems[i])

\* C1: filterPtr returns, in source order, exactly the source's references
\* for which the predicate holds and copies no record; whatever was assigned
\* through a result element, every source element with the same ID is the
\* very same record and shows the same field values.
C1_FilterPtrAliases ==
    op = "filterPtr" =>
        /\ ~res.nil
        /\ res.elems = SelectSeq(ptrs.elems, LAMBDA p : PredHolds(pred, heap0, p))
        /\ Len(heap) = Len(heap0)
        /\ \A k \in DOMAIN res.elems :
              res.elems[k] # Nil =>
                /\ \E i \in DOMAIN ptrs.elems : ptrs.elems[i] = res.elems[k]
                /\ \A i \in DOMAIN ptrs.elems :
                      (/\ ptrs.elems[i] # Nil
                       /\ Deref(heap, ptrs.elems[i]).ID = Deref(heap, res.elems[k]).ID)
                      => Deref(heap, ptrs.elems[i]) = Deref(heap, res.elems[k])

C1_Witness ==
    /\ op = "filterPtr"
    /\ touched = {"res"}
    /\ Len(res.elems) < Len(ptrs.elems)
    /\ \E k \in DOMAIN res.elems, i \in DOMAIN ptrs.elems :
          /\ res.elems[k] # Nil
          /\ ptrs.elems[i] # Nil
          /\ Deref(heap, ptrs.elems[i]).ID = Deref(heap, res.elems[k]).ID
          /\ Deref(heap, ptrs.elems[i]).Name = NameUpdated
          /\ Deref(heap0, ptrs.elems[i]).Name # NameUpdated

\* C2: filterPtrDeepCopy returns no reference of the source (every result
\* element is a record allocated by the call), and when fields are assigned
\* only through result elements every source element keeps all its fields.
C2_DeepCopyFilterIndependent ==
    op = "filterPtrDeepCopy" =>
        /\ \A k \in DOMAIN res.elems :
              /\ res.elems[k] # Nil
              /\ res.elems[k] \notin DOMAIN heap0
              /\ \A i \in DOMAIN ptrs.elems : ptrs.elems[i] # res.elems[k]
        /\ touched \subseteq {"res"} => SourceUnchanged

C2_Witness ==
    /\ op = "filterPtrDeepCopy"
    /\ touched = {"res"}
    /\ nmut = MaxMut
    /\ \E i \in DOMAIN ptrs.elems : ptrs.elems[i] = Nil
    /\ \E k \in DOMAIN res.elems, i \in DOMAIN ptrs.elems :
          /\ ptrs.elems[i] # Nil
          /\ Deref(heap, ptrs.elems[i]).ID = Deref(heap, res.elems[k]).ID
          /\ Deref(heap, res.elems[k]).Name = NameUpdated
          /\ Deref(heap, ptrs.elems[i]).Name # NameUpdated

\* C3: sorting any input with the nil-aware comparator completes and never
\* reads a field through a nil pointer; the sorted slice is a permutation of
\* the input, has every nil slot after every present slot and has the
\* present slots in ascending order of Name.
C3_SortNilLast ==
    /\ op = "none" => ~SortSlice(heap, ptrs.elems).fault
    /\ op = "sort" =>
        /\ ~fault
        /\ Len(ptrs.elems) = Len(ptrs0.elems)
        /\ \A x \in 0..Len(heap) : Count(x, ptrs.elems) = Count(x, ptrs0.elems)
        /\ \A i, j \in DOMAIN ptrs.elems :
              i < j =>
                /\ ptrs.elems[i] = Nil => ptrs.elems[j] = Nil
                /\ (ptrs.elems[i] # Nil /\ ptrs.elems[j] # Nil) =>
                      ~LexLess(Deref(heap, ptrs.elems[j]).Name,
                               Deref(heap, ptrs.elems[i]).Name)

\* [Bob, nil, Alice] becomes [Alice, Bob, nil]
C3_Witness ==
    /\ op = "sort"
    /\ ~fault
    /\ ptrs0.elems = <<2, Nil, 1>>
    /\ ptrs.elems = <<1, 2, Nil>>

JsonMatches(doc, h, s) ==
    /\ HasKey(doc, "users")
    /\ ValueOf(doc, "users").kind = "array"
    /\ Len(ValueOf(doc, "users").elems) = Len(s)
    /\ \A i \in DOMAIN s :
          IF s[i] = Nil THEN ValueOf(doc, "users").elems[i].kind = "null"
          ELSE /\ ValueOf(doc, "users").elems[i].kind = "object"
               /\ ValueOf(doc, "users").elems[i].val = Deref(h, s[i])

\* C4: the users array of an encoded []*User has one null per nil slot, at
\* the index of that slot, and one object per present slot; the encoding of
\* compactNonNil(ps) has no null and exactly the present slots of ps as
\* objects, in their order.
C4_JsonNullPerNilSlot ==
    /\ (out.src # "none" /\ ~Holder(out.src).nil) =>
          JsonMatches(out.doc, heap, Holder(out.src).elems)
    /\ (out.src = "res" /\ op = "compactNonNil") =>
          /\ HasKey(out.doc, "users")
          /\ ValueOf(out.doc, "users").kind = "array"
          /\ \A i \in DOMAIN ValueOf(out.doc, "users").elems :
                ValueOf(out.doc, "users").elems[i].kind = "object"
          /\ Len(ValueOf(out.doc, "users").elems) = Len(ptrs.elems) - Count(Nil, ptrs.elems)
          /\ JsonMatches(out.doc, heap, Present(ptrs.elems))

C4_Witness ==
    /\ out.src = "res"
    /\ op = "compactNonNil"
    /\ Count(Nil, ptrs.elems) = 1
    /\ Len(ValueOf(out.doc, "users").elems) = 2

\* C8: a shallow copy of a []*User, and a second slice built from the same
\* pointer, hold at every index the same pointer as the original, so both
\* show the same field values whichever of them a field was assigned through.
C8_ShallowCopyShares ==
    op \in {"shallow", "share"} =>
        /\ res.elems = ptrs.elems
        /\ Len(heap) = Len(heap0)
        /\ ObservedThrough(heap, res) = ObservedThrough(heap, ptrs)

C8_Witness ==
    /\ op = "shallow"
    /\ touched = {"ptrs", "res"}
    /\ \E i \in DOMAIN res.elems :
          /\ res.elems[i] # Nil
          /\ Deref(heap, ptrs.elems[i]).City = "Tokyo"
          /\ Deref(heap0, ptrs.elems[i]).City # "Tokyo"
          /\ Deref(heap, res.elems[i]).Name = NameUpdated

\* C10: deepCopyPtrSlice returns a slice of the same length, nil exactly
\* where the input is nil, and elsewhere a pointer to a new record (equal to
\* no input pointer and to no other result pointer) that is field-equal to
\* the input record; when fields are assigned only through the result every
\* input record keeps all its fields.
C10_DeepCopyPtrSlice ==
    op = "deepCopyPtrSlice" =>
        /\ ~res.nil
        /\ Len(res.elems) = Len(ptrs.elems)
        /\ \A i \in DOMAIN ptrs.elems :
              /\ res.elems[i] = Nil <=> ptrs.elems[i] = Nil
              /\ res.elems[i] # Nil =>
                    /\ res.elems[i] \notin DOMAIN heap0
                    /\ \A j \in DOMAIN ptrs.elems : res.elems[i] # ptrs.elems[j]
                    /\ \A j \in DOMAIN res.elems : j # i => res.elems[j] # res.elems[i]
                    /\ Deref(heap0, ptrs.elems[i]).ID = Deref(heap, res.elems[i]).ID
                    /\ touched = {} => Deref(heap, res.elems[i]) = Deref(heap, ptrs.elems[i])
        /\ touched \subseteq {"res"} => SourceUnchanged

C10_Witness ==
    /\ op = "deepCopyPtrSlice"
    /\ touched = {"res"}
    /\ nmut = MaxMut
    /\ \E i \in DOMAIN ptrs.elems : ptrs.elems[i] = Nil
    /\ \E i \in DOMAIN ptrs.elems :
          /\ ptrs.elems[i] # Nil
          /\ Deref(heap, res.elems[i]).Name = NameUpdated
          /\ Deref(heap, ptrs.elems[i]).Name # NameUpdated

----------------------------------------------------------------------------
(* Properties of the value slice and of the slice pointer *)

\* C5: after a2.Users was copied element by element from a.Users, whatever
\* is assigned to elements of the copy, a.Users has the elements it had
\* before the copy; the copy has as many elements, with the same IDs.
C5_ValueCopyIndependent ==
    copied =>
        /\ Elems(arrays, slots["a"]) = snap
        /\ slots["a2"].len = Len(snap)
        /\ \A i \in 1..Len(snap) : Elems(arrays, slots["a2"])[i].ID = snap[i].ID

C5_Witness ==
    /\ copied
    /\ \E i \in 1..Len(snap) :
          /\ Elems(arrays, slots["a2"])[i].Name = NameUpdated
          /\ Elems(arrays, slots["a2"])[i].Age > snap[i].Age
          /\ Elems(arrays, slots["a"])[i].Name # NameUpdated

\* C6: once b.Users holds the address of a slice variable, the slice read
\* through b.Users and the slice read from the variable have the same
\* header and the same elements, whatever was assigned or appended through
\* either of them.
C6_SlicePointerShares ==
    bOf # "none" =>
        /\ bUsers # NilRef
        /\ slots[bUsers] = slots[bOf]
        /\ Elems(arrays, slots[bUsers]) = Elems(arrays, slots[bOf])

C6_Witness ==
    /\ bOf = "val"
    /\ vmut = MaxMut
    /\ slots[bOf].cap > slots[bOf].len
    /\ \E i \in 1..slots[bOf].len : Elems(arrays, slots[bUsers])[i].Name = NameUpdated

----------------------------------------------------------------------------
(* Properties of the encoding of the three containers *)

Observed(sh, k) == \E l \in stdout : l.shape = sh /\ l.kind = k

OmitsWhen(sh, k) ==
    \E l \in stdout : l.shape = sh /\ l.kind = k /\ ~HasKey(l.doc, "users")

\* C7: once every shape has been printed with its collection absent and
\* with its collection empty, exactly one of the three shapes has left the
\* users member out in both cases.
C7_ExactlyOneShapeOmitsBoth ==
    (\A sh \in Shapes : Observed(sh, "nil") /\ Observed(sh, "empty")) =>
        Cardinality({sh \in Shapes : OmitsWhen(sh, "nil") /\ OmitsWhen(sh, "empty")}) = 1

\* C9: every line printed for HogeA has no users member when Users is nil,
\* and has the users member with the empty array when Users is []User{}.
C9_HogeANilOmittedEmptyEmitted ==
    \A l \in stdout :
        l.shape = "A" =>
            /\ l.kind = "nil" => ~HasKey(l.doc, "users")
            /\ l.kind = "empty" =>
                  /\ HasKey(l.doc, "users")
                  /\ ValueOf(l.doc, "users") = JArray(<<>>)

====
